---- MODULE Spec2Model ----
(***************************************************************************)
(* Model of lgo1-trio (src/src/bin/lgo1-trio.rs): five supervised worker   *)
(* threads sharing one atomic presence word, one unbounded event channel   *)
(* (virtual_s/virtual_r) and one zero-capacity hotplug channel             *)
(* (udev_s/udev_r).                                                        *)
(***************************************************************************)
EXTENDS Integers, Sequences, FiniteSets, TLC

\* ---------------------------------------------------------------- bounds
MaxDevChanges == 2   \* keyboards attached or detached
MaxHotplug    == 3   \* hotplug events on the monitor socket
MaxKeys       == 2   \* raw events read from the internal keyboard
MaxFails      == 1   \* I/O failures injected into the workers
MaxQueue      == 2   \* events in flight on the virtual channel
MaxSnapshot   == 3   \* devices in an enumeration (classifier specification)

\* ------------------------------------------------------- KeyboardStatus
CaseExternal == "CaseExternal"
AnyExternal  == "AnyExternal"
None         == "None"
KeyboardStatus == {CaseExternal, AnyExternal, None}

\* `*self as u32`: the enum discriminants
as_u32_from_one(s) ==
  CASE s = CaseExternal -> 3
    [] s = AnyExternal  -> 2
    [] OTHER            -> 1

as_u32(s) ==
  CASE s = CaseExternal -> 2
    [] s = AnyExternal  -> 1
    [] OTHER            -> 0

\* KeyboardStatus::load_atomic: decode, any other code falls back to None
load_atomic_swapped(atomic) ==
  CASE atomic = 2 -> AnyExternal
    [] atomic = 1 -> CaseExternal
    [] OTHER      -> None

load_atomic(atomic) ==
  CASE atomic = 2 -> CaseExternal
    [] atomic = 1 -> AnyExternal
    [] OTHER      -> None

\* KeyboardStatus::store_atomic: the word written
store_atomic(s) == as_u32(s)

is_tablet_mode_not_case(s) == s # CaseExternal

is_tablet_mode(s) == s = None

\* `bool as i32`
bool_as_i32(b) == IF b THEN 1 ELSE 0

\* ------------------------------------------------------------ constants
FORWARD_KEYS == {"KEY_VOLUMEDOWN", "KEY_VOLUMEUP"}
TEST_KEYS    == {"KEY_ENTER", "KEY_BACKSPACE", "KEY_ESC"}
BUS_I8042     == "BUS_I8042"
BUS_USB       == "BUS_USB"
BUS_BLUETOOTH == "BUS_BLUETOOTH"
INTERNAL_BLACKLIST == { <<BUS_I8042, 1, 1>>, <<BUS_USB, 6127, 24964>> }
CASE_ID     == <<BUS_BLUETOOTH, 1256, 28705>>
INTERNAL_ID == <<BUS_I8042, 1, 1>>

\* InputEvent::new(type, code, value)
InputEvent(t, c, v) == [type |-> t, code |-> c, value |-> v]
NoEvent == InputEvent("NONE", "NONE", 0)

\* --------------------------------------------------------------- devices
\* A device: input_id() and supported_keys(), an Option held as a set of at
\* most one element
Dev(id, keys) == [id |-> id, keys |-> keys]
Absent  == {}
Some(x) == {x}

FullKeys    == TEST_KEYS \cup {"KEY_A"}
PartialKeys == {"KEY_ENTER", "KEY_BACKSPACE"}

InternalKeyboard == Dev(INTERNAL_ID, Some(FullKeys))
CaseKeyboard     == Dev(CASE_ID, Some(FullKeys))
UsbKeyboard      == Dev(<<BUS_USB, 1452, 544>>, Some(FullKeys))

\* keyboards the environment plugs in and out in the system specifications;
\* the internal keyboard stays
Pluggable == {CaseKeyboard, UsbKeyboard}

\* devices of the classifier specification: every identity of interest with
\* every shape of capability set
SnapshotIds ==
  { INTERNAL_ID, <<BUS_USB, 6127, 24964>>, CASE_ID,
    <<BUS_USB, 1452, 544>>, <<BUS_BLUETOOTH, 1256, 28706>>, <<BUS_USB, 1, 1>> }
SnapshotKeys == { Absent, Some(PartialKeys), Some(FullKeys) }
SnapshotDevs == { Dev(i, k) : i \in SnapshotIds, k \in SnapshotKeys }
Snapshots == UNION { [1..n -> SnapshotDevs] : n \in 0..MaxSnapshot }

\* ------------------------------------------------------ keyboard_status
\* d.supported_keys().map_or(false, |s| TEST_KEYS.iter().all(|k| s.contains(k)))
looks_like_keyboard_any(d) ==
  \E attr_set \in d.keys : \E k \in TEST_KEYS : k \in attr_set

looks_like_keyboard(d) ==
  \E attr_set \in d.keys : \A k \in TEST_KEYS : k \in attr_set

is_blacklisted_by_bus(d) == \E b \in INTERNAL_BLACKLIST : b[1] = d.id[1]

is_blacklisted(d) == d.id \in INTERNAL_BLACKLIST

\* the for loop of keyboard_status over the enumeration, from position i
RECURSIVE keyboard_status_from(_, _)
keyboard_status_from(ds, i) ==
  IF i > Len(ds) THEN None
  ELSE IF ds[i].id = CASE_ID THEN CaseExternal
  ELSE IF looks_like_keyboard(ds[i]) /\ ~is_blacklisted(ds[i]) THEN AnyExternal
  ELSE keyboard_status_from(ds, i + 1)

keyboard_status(ds) == keyboard_status_from(ds, 1)

\* ------------------------------------------------------------- variables
VARIABLES
  devices,        \* what evdev::enumerate() yields, in enumeration order
  udev_sock,      \* events pending on the udev monitor socket
  udev_slot,      \* udev channel: a signal handed to the blocked receiver
  virt,           \* virtual channel: InputEvents in flight
  atomic_status,  \* the shared AtomicU32
  rsk_pc,         \* read_suppressed_keyboard
  rvd_pc,         \* run_virtual_device
  rvd_event,      \*   its `event`
  dev_keys,       \* key events emitted on the synthesized device
  dev_switch,     \* last SW_TABLET_MODE value emitted on it (an Option)
  udev_pc,        \* read_udev_add_remove
  mon_pc,         \* read_keyboard_status
  mon_status,     \*   its `status`
  dbus_pc,        \* run_dbus
  dbus_status,    \*   its `status`
  last_status,    \*   its `last_status`
  dbus_conn,      \*   connections opened so far (the signal's sender)
  notifs,         \* PropertiesChanged signals sent on the bus
  n_dev, n_hot, n_keys, n_fail,   \* activity so far, against the bounds
  dropped,        \* history: hotplug signals try_send could not hand over
  reads,          \* history: the forwarded-key events read from the keyboard
  writes,         \* history: the value changes stored by the monitor
  sw_log,         \* history: <<status, switch value>> pairs the monitor sent
  mon_trigger,    \* history: what started the monitor's current pass
  burst_len,      \* history: hotplug signals received in the latest burst
  bursts,         \* history: bursts begun (signals received in the long wait)
  burst_passes,   \* history: classification passes started by a burst's end
  burst_stores    \* history: stores made by those passes

env_vars  == << devices, udev_sock, n_dev, n_hot, dropped >>
rsk_vars  == << rsk_pc, n_keys, reads >>
rvd_vars  == << rvd_pc, rvd_event, dev_keys, dev_switch >>
mon_hist  == << writes, sw_log, mon_trigger, burst_len, bursts, burst_passes,
                burst_stores >>
mon_vars  == << mon_pc, mon_status, mon_hist >>
dbus_vars == << dbus_pc, dbus_status, last_status, dbus_conn, notifs >>

vars == << env_vars, udev_slot, virt, atomic_status, rsk_vars, rvd_vars,
           udev_pc, mon_vars, dbus_vars, n_fail >>

Unset == "Unset"        \* Option::None of last_status

\* main: the state when the five threads have been spawned
Init ==
  /\ devices = << InternalKeyboard >>
  /\ udev_sock = << >>
  /\ udev_slot = FALSE
  /\ virt = << >>
  /\ atomic_status = as_u32(None)
  /\ rsk_pc = "find"
  /\ rvd_pc = "build"
  /\ rvd_event = NoEvent
  /\ dev_keys = << >>
  /\ dev_switch = Absent
  /\ udev_pc = "listen"
  /\ mon_pc = "classify"
  /\ mon_status = None
  /\ dbus_pc = "connect"
  /\ dbus_status = None
  /\ last_status = Unset
  /\ dbus_conn = 0
  /\ notifs = << >>
  /\ n_dev = 0 /\ n_hot = 0 /\ n_keys = 0 /\ n_fail = 0
  /\ dropped = 0
  /\ reads = << >>
  /\ writes = << >>
  /\ sw_log = {}
  /\ mon_trigger = "start"
  /\ burst_len = 0 /\ bursts = 0 /\ burst_passes = 0 /\ burst_stores = 0

\* ----------------------------------------------------------- environment
InsertAt(seq, pos, x) == SubSeq(seq, 1, pos - 1) \o << x >> \o SubSeq(seq, pos, Len(seq))
RemoveAt(seq, pos)    == SubSeq(seq, 1, pos - 1) \o SubSeq(seq, pos + 1, Len(seq))
Range(seq)            == { seq[i] : i \in 1..Len(seq) }

\* the kernel queues an event on the monitor socket, when one is open
Notify(evt) == IF udev_pc = "poll" THEN Append(udev_sock, evt) ELSE udev_sock

\* a keyboard appears; the enumeration order is the directory's, so anywhere
Attach(d, pos) ==
  /\ n_dev < MaxDevChanges
  /\ d \notin Range(devices)
  /\ devices' = InsertAt(devices, pos, d)
  /\ udev_sock' = Notify("add")
  /\ n_dev' = n_dev + 1
  /\ UNCHANGED << n_hot, dropped, udev_slot, virt, atomic_status, rsk_vars, rvd_vars,
                  udev_pc, mon_vars, dbus_vars, n_fail >>

Detach(pos) ==
  /\ n_dev < MaxDevChanges
  /\ devices[pos] \in Pluggable
  /\ devices' = RemoveAt(devices, pos)
  /\ udev_sock' = Notify("remove")
  /\ n_dev' = n_dev + 1
  /\ UNCHANGED << n_hot, dropped, udev_slot, virt, atomic_status, rsk_vars, rvd_vars,
                  udev_pc, mon_vars, dbus_vars, n_fail >>

\* an event of the input subsystem that leaves the keyboards as they are: a
\* sub-interface of a composite device or a pointer (add, remove), a change
HotplugEvent(evt) ==
  /\ n_hot < MaxHotplug
  /\ udev_pc = "poll"
  /\ udev_sock' = Append(udev_sock, evt)
  /\ n_hot' = n_hot + 1
  /\ UNCHANGED << devices, n_dev, dropped, udev_slot, virt, atomic_status,
                  rsk_vars, rvd_vars, udev_pc, mon_vars, dbus_vars, n_fail >>

\* --------------------------------------------- read_suppressed_keyboard
\* what fetch_events() can yield: key presses and releases, scan codes
RawEvents ==
  { InputEvent("KEY", "KEY_VOLUMEUP", 1), InputEvent("KEY", "KEY_VOLUMEDOWN", 0),
    InputEvent("KEY", "KEY_A", 1), InputEvent("MSC", "MSC_SCAN", 30) }

has_internal_keyboard == \E i \in 1..Len(devices) : devices[i].id = INTERNAL_ID

\* evdev::enumerate().find(..).ok_or("could not find internal keyboard")?
RskFind ==
  /\ rsk_pc = "find"
  /\ rsk_pc' = IF has_internal_keyboard THEN "fetch" ELSE "sleep"
  /\ UNCHANGED << env_vars, udev_slot, virt, atomic_status, n_keys, reads,
                  rvd_vars, udev_pc, mon_vars, dbus_vars, n_fail >>

\* one event of a fetch_events() batch
RskEventAll(event) ==
  /\ rsk_pc = "fetch"
  /\ n_keys < MaxKeys
  /\ n_keys' = n_keys + 1
  /\ Len(virt) < MaxQueue
  /\ virt' = Append(virt, InputEvent("KEY", event.code, event.value))
  /\ reads' = Append(reads, event)
  /\ UNCHANGED << env_vars, udev_slot, atomic_status, rsk_pc, rvd_vars,
                  udev_pc, mon_vars, dbus_vars, n_fail >>

RskEvent(event) ==
  /\ rsk_pc = "fetch"
  /\ n_keys < MaxKeys
  /\ n_keys' = n_keys + 1
  /\ IF event.code \in FORWARD_KEYS
       THEN /\ Len(virt) < MaxQueue
            /\ virt' = Append(virt, InputEvent("KEY", event.code, event.value))
            /\ reads' = Append(reads, event)
       ELSE UNCHANGED << virt, reads >>
  /\ UNCHANGED << env_vars, udev_slot, atomic_status, rsk_pc, rvd_vars,
                  udev_pc, mon_vars, dbus_vars, n_fail >>

\* internal_keyboard.fetch_events()? fails
RskFetchErr ==
  /\ rsk_pc = "fetch"
  /\ n_fail < MaxFails
  /\ n_fail' = n_fail + 1
  /\ rsk_pc' = "sleep"
  /\ UNCHANGED << env_vars, udev_slot, virt, atomic_status, n_keys, reads,
                  rvd_vars, udev_pc, mon_vars, dbus_vars >>

\* spawn_loop: the error is logged, the thread sleeps and calls f() again
RskRestart ==
  /\ rsk_pc = "sleep"
  /\ rsk_pc' = "find"
  /\ UNCHANGED << env_vars, udev_slot, virt, atomic_status, n_keys, reads,
                  rvd_vars, udev_pc, mon_vars, dbus_vars, n_fail >>

\* --------------------------------------------------- run_virtual_device
\* VirtualDevice::builder()?...build()?: a fresh device, its switch unset
RvdBuild ==
  /\ rvd_pc = "build"
  /\ rvd_pc' = "recv"
  /\ dev_switch' = Absent
  /\ UNCHANGED << env_vars, udev_slot, virt, atomic_status, rsk_vars,
                  rvd_event, dev_keys, udev_pc, mon_vars, dbus_vars, n_fail >>

RvdBuildErr ==
  /\ rvd_pc = "build"
  /\ n_fail < MaxFails
  /\ n_fail' = n_fail + 1
  /\ rvd_pc' = "sleep"
  /\ UNCHANGED << env_vars, udev_slot, virt, atomic_status, rsk_vars,
                  rvd_event, dev_keys, dev_switch, udev_pc, mon_vars,
                  dbus_vars >>

\* let event = event_stream.recv()?
RvdRecvLast ==
  /\ rvd_pc = "recv"
  /\ virt # << >>
  /\ rvd_event' = virt[Len(virt)]
  /\ virt' = SubSeq(virt, 1, Len(virt) - 1)
  /\ rvd_pc' = "gate"
  /\ UNCHANGED << env_vars, udev_slot, atomic_status, rsk_vars, dev_keys,
                  dev_switch, udev_pc, mon_vars, dbus_vars, n_fail >>

RvdRecv ==
  /\ rvd_pc = "recv"
  /\ virt # << >>
  /\ rvd_event' = Head(virt)
  /\ virt' = Tail(virt)
  /\ rvd_pc' = "gate"
  /\ UNCHANGED << env_vars, udev_slot, atomic_status, rsk_vars, dev_keys,
                  dev_switch, udev_pc, mon_vars, dbus_vars, n_fail >>

\* device.emit(&[event]) succeeding
Emit(event) ==
  /\ dev_keys' = IF event.type = "KEY" THEN Append(dev_keys, event) ELSE dev_keys
  /\ dev_switch' = IF event.type = "SWITCH" THEN Some(event.value) ELSE dev_switch

\* if load_atomic(&atomic_status).is_tablet_mode() { device.emit(&[event])?; }
\* and the loop's next iteration drops `event`
RvdGateAlways ==
  /\ rvd_pc = "gate"
  /\ Emit(rvd_event)
  /\ rvd_event' = NoEvent
  /\ rvd_pc' = "recv"
  /\ UNCHANGED << env_vars, udev_slot, virt, atomic_status, rsk_vars, udev_pc,
                  mon_vars, dbus_vars, n_fail >>

RvdGate ==
  /\ rvd_pc = "gate"
  /\ IF is_tablet_mode(load_atomic(atomic_status))
       THEN Emit(rvd_event)
       ELSE UNCHANGED << dev_keys, dev_switch >>
  /\ rvd_event' = NoEvent
  /\ rvd_pc' = "recv"
  /\ UNCHANGED << env_vars, udev_slot, virt, atomic_status, rsk_vars, udev_pc,
                  mon_vars, dbus_vars, n_fail >>

\* device.emit(&[event])? fails: nothing is written, the worker returns Err
RvdEmitErr ==
  /\ rvd_pc = "gate"
  /\ is_tablet_mode(load_atomic(atomic_status))
  /\ n_fail < MaxFails
  /\ n_fail' = n_fail + 1
  /\ rvd_event' = NoEvent
  /\ rvd_pc' = "sleep"
  /\ UNCHANGED << env_vars, udev_slot, virt, atomic_status, rsk_vars,
                  dev_keys, dev_switch, udev_pc, mon_vars, dbus_vars >>

\* spawn_loop calls f() again; the channel was made once, in main
RvdRestartNewChannel ==
  /\ rvd_pc = "sleep"
  /\ rvd_pc' = "build"
  /\ virt' = << >>
  /\ UNCHANGED << env_vars, udev_slot, atomic_status, rsk_vars,
                  rvd_event, dev_keys, dev_switch, udev_pc, mon_vars,
                  dbus_vars, n_fail >>

RvdRestart ==
  /\ rvd_pc = "sleep"
  /\ rvd_pc' = "build"
  /\ UNCHANGED << env_vars, udev_slot, virt, atomic_status, rsk_vars,
                  rvd_event, dev_keys, dev_switch, udev_pc, mon_vars,
                  dbus_vars, n_fail >>

\* ------------------------------------------------- read_udev_add_remove
\* MonitorBuilder::new()?.match_subsystem("input")?.listen()?: a new socket
UdevListen ==
  /\ udev_pc = "listen"
  /\ udev_pc' = "poll"
  /\ udev_sock' = << >>
  /\ UNCHANGED << devices, n_dev, n_hot, dropped, udev_slot, virt,
                  atomic_status, rsk_vars, rvd_vars, mon_vars, dbus_vars,
                  n_fail >>

UdevListenErr ==
  /\ udev_pc = "listen"
  /\ n_fail < MaxFails
  /\ n_fail' = n_fail + 1
  /\ udev_pc' = "sleep"
  /\ UNCHANGED << env_vars, udev_slot, virt, atomic_status, rsk_vars,
                  rvd_vars, mon_vars, dbus_vars >>

\* consumer.try_send(()) on sync_channel(0): the signal is handed over only
\* to a receiver blocked in recv_timeout that has not been handed one yet;
\* otherwise try_send returns Err(Full), which `let _ =` discards
try_send_always == TRUE

try_send ==
  IF mon_pc \in {"wait_long", "debounce"} /\ ~udev_slot THEN TRUE ELSE udev_slot

\* ppoll, socket.iter().next() = Some(evt), match evt.event_type()
UdevRead ==
  /\ udev_pc = "poll"
  /\ udev_sock # << >>
  /\ udev_sock' = Tail(udev_sock)
  /\ udev_slot' = IF Head(udev_sock) \in {"add", "remove"} THEN try_send ELSE udev_slot
  /\ dropped' = IF Head(udev_sock) \in {"add", "remove"} /\ udev_slot' = udev_slot
                  THEN dropped + 1 ELSE dropped
  /\ UNCHANGED << devices, n_dev, n_hot, virt, atomic_status, rsk_vars,
                  rvd_vars, udev_pc, mon_vars, dbus_vars, n_fail >>

\* ppoll returns < 0: the socket is dropped with what it held
UdevPollErr ==
  /\ udev_pc = "poll"
  /\ n_fail < MaxFails
  /\ n_fail' = n_fail + 1
  /\ udev_pc' = "sleep"
  /\ udev_sock' = << >>
  /\ UNCHANGED << devices, n_dev, n_hot, dropped, udev_slot, virt,
                  atomic_status, rsk_vars, rvd_vars, mon_vars, dbus_vars >>

UdevRestart ==
  /\ udev_pc = "sleep"
  /\ udev_pc' = "listen"
  /\ UNCHANGED << env_vars, udev_slot, virt, atomic_status, rsk_vars,
                  rvd_vars, mon_vars, dbus_vars, n_fail >>

\* ------------------------------------------------- read_keyboard_status
\* let status = keyboard_status();
MonClassify ==
  /\ mon_pc = "classify"
  /\ mon_status' = keyboard_status(devices)
  /\ mon_pc' = "send"
  /\ burst_passes' = IF mon_trigger = "burst" THEN burst_passes + 1 ELSE burst_passes
  /\ UNCHANGED << env_vars, udev_slot, virt, atomic_status, rsk_vars,
                  rvd_vars, udev_pc, dbus_vars, n_fail, writes, sw_log,
                  mon_trigger, burst_len, bursts, burst_stores >>

\* virtual_consumer.send(InputEvent::new(SWITCH, SW_TABLET_MODE, ..))?
\* (the receiver lives as long as its thread, so the send cannot fail)
MonSend ==
  /\ mon_pc = "send"
  /\ Len(virt) < MaxQueue
  /\ virt' = Append(virt, InputEvent("SWITCH", "SW_TABLET_MODE",
                                     bool_as_i32(is_tablet_mode(mon_status))))
  /\ sw_log' = sw_log \cup { << mon_status, bool_as_i32(is_tablet_mode(mon_status)) >> }
  /\ mon_pc' = "store"
  /\ UNCHANGED << env_vars, udev_slot, atomic_status, rsk_vars, rvd_vars,
                  udev_pc, dbus_vars, n_fail, mon_status, writes, mon_trigger,
                  burst_len, bursts, burst_passes, burst_stores >>

\* status.store_atomic(&atomic_status); the iteration ends and `status` is
\* dropped; recv_timeout(120 s) begins
MonStoreUnlessPeriodic ==
  /\ mon_pc = "store"
  /\ atomic_status' = IF mon_trigger = "periodic" THEN atomic_status
                                                   ELSE store_atomic(mon_status)
  /\ writes' = IF atomic_status' # atomic_status
                 THEN Append(writes, atomic_status') ELSE writes
  /\ burst_stores' = IF mon_trigger = "burst" THEN burst_stores + 1 ELSE burst_stores
  /\ mon_status' = None
  /\ mon_pc' = "wait_long"
  /\ UNCHANGED << env_vars, udev_slot, virt, rsk_vars, rvd_vars, udev_pc,
                  dbus_vars, n_fail, sw_log, mon_trigger, burst_len, bursts,
                  burst_passes >>

MonStore ==
  /\ mon_pc = "store"
  /\ atomic_status' = store_atomic(mon_status)
  /\ writes' = IF atomic_status' # atomic_status
                 THEN Append(writes, atomic_status') ELSE writes
  /\ burst_stores' = IF mon_trigger = "burst" THEN burst_stores + 1 ELSE burst_stores
  /\ mon_status' = None
  /\ mon_pc' = "wait_long"
  /\ UNCHANGED << env_vars, udev_slot, virt, rsk_vars, rvd_vars, udev_pc,
                  dbus_vars, n_fail, sw_log, mon_trigger, burst_len, bursts,
                  burst_passes >>

\* recv_timeout(120 s) returns a signal: enter the inner loop
MonRecvLong ==
  /\ mon_pc = "wait_long"
  /\ udev_slot
  /\ udev_slot' = FALSE
  /\ mon_pc' = "debounce"
  /\ burst_len' = 1
  /\ bursts' = bursts + 1
  /\ UNCHANGED << env_vars, virt, atomic_status, rsk_vars, rvd_vars, udev_pc,
                  dbus_vars, n_fail, mon_status, writes, sw_log, mon_trigger,
                  burst_passes, burst_stores >>

\* recv_timeout(120 s) returns Err(Timeout): the forced recheck
MonTimeoutLongStay ==
  /\ mon_pc = "wait_long"
  /\ ~udev_slot
  /\ UNCHANGED vars

MonTimeoutLongAny ==
  /\ mon_pc = "wait_long"
  /\ mon_pc' = "classify"
  /\ mon_trigger' = "periodic"
  /\ UNCHANGED << env_vars, udev_slot, virt, atomic_status, rsk_vars,
                  rvd_vars, udev_pc, dbus_vars, n_fail, mon_status, writes,
                  sw_log, burst_len, bursts, burst_passes, burst_stores >>

MonTimeoutLong ==
  /\ mon_pc = "wait_long"
  /\ ~udev_slot
  /\ mon_pc' = "classify"
  /\ mon_trigger' = "periodic"
  /\ UNCHANGED << env_vars, udev_slot, virt, atomic_status, rsk_vars,
                  rvd_vars, udev_pc, dbus_vars, n_fail, mon_status, writes,
                  sw_log, burst_len, bursts, burst_passes, burst_stores >>

\* inner recv_timeout(1000 ms) returns a signal: continue
MonRecvIdleBreak ==
  /\ mon_pc = "debounce"
  /\ udev_slot
  /\ udev_slot' = FALSE
  /\ mon_pc' = "classify"
  /\ mon_trigger' = "burst"
  /\ burst_len' = burst_len + 1
  /\ UNCHANGED << env_vars, virt, atomic_status, rsk_vars, rvd_vars, udev_pc,
                  dbus_vars, n_fail, mon_status, writes, sw_log, bursts,
                  burst_passes, burst_stores >>

MonRecvIdle ==
  /\ mon_pc = "debounce"
  /\ udev_slot
  /\ udev_slot' = FALSE
  /\ burst_len' = burst_len + 1
  /\ UNCHANGED << env_vars, virt, atomic_status, rsk_vars, rvd_vars, udev_pc,
                  dbus_vars, n_fail, mon_pc, mon_status, writes, sw_log,
                  mon_trigger, bursts, burst_passes, burst_stores >>

\* inner recv_timeout(1000 ms) returns Err(Timeout): break, back to the top
MonTimeoutIdle ==
  /\ mon_pc = "debounce"
  /\ ~udev_slot
  /\ mon_pc' = "classify"
  /\ mon_trigger' = "burst"
  /\ UNCHANGED << env_vars, udev_slot, virt, atomic_status, rsk_vars,
                  rvd_vars, udev_pc, dbus_vars, n_fail, mon_status, writes,
                  sw_log, burst_len, bursts, burst_passes, burst_stores >>

\* -------------------------------------------------------------- run_dbus
\* make_crossroads, LocalConnection::new_system()?, request_name(..)?,
\* start_receive(..); let mut last_status = None
DbusConnectKeep ==
  /\ dbus_pc = "connect"
  /\ dbus_conn' = dbus_conn + 1
  /\ dbus_pc' = "process"
  /\ UNCHANGED << env_vars, udev_slot, virt, atomic_status, rsk_vars,
                  rvd_vars, udev_pc, mon_vars, dbus_status, last_status,
                  notifs, n_fail >>

DbusConnect ==
  /\ dbus_pc = "connect"
  /\ dbus_conn' = dbus_conn + 1
  /\ last_status' = Unset
  /\ dbus_pc' = "process"
  /\ UNCHANGED << env_vars, udev_slot, virt, atomic_status, rsk_vars,
                  rvd_vars, udev_pc, mon_vars, dbus_status, notifs, n_fail >>

DbusConnectErr ==
  /\ dbus_pc = "connect"
  /\ n_fail < MaxFails
  /\ n_fail' = n_fail + 1
  /\ dbus_pc' = "sleep"
  /\ UNCHANGED << env_vars, udev_slot, virt, atomic_status, rsk_vars,
                  rvd_vars, udev_pc, mon_vars, dbus_status, last_status,
                  dbus_conn, notifs >>

\* last_status.is_none_or(|s| s != status)
status_changed_always(last, status) == TRUE

status_changed(last, status) == last = Unset \/ last # status

\* conn.process(100 ms)?; let status = load_atomic(..); if last_status...
\* (when the test fails, the iteration ends and `status` is dropped)
DbusPoll ==
  /\ dbus_pc = "process"
  /\ LET status == load_atomic(atomic_status) IN
       IF status_changed(last_status, status)
         THEN dbus_status' = status /\ dbus_pc' = "send"
         ELSE dbus_status' = None /\ dbus_pc' = "process"
  /\ UNCHANGED << env_vars, udev_slot, virt, atomic_status, rsk_vars,
                  rvd_vars, udev_pc, mon_vars, last_status, dbus_conn, notifs,
                  n_fail >>

\* conn.process(100 ms)? fails
DbusProcessErr ==
  /\ dbus_pc = "process"
  /\ n_fail < MaxFails
  /\ n_fail' = n_fail + 1
  /\ dbus_pc' = "sleep"
  /\ UNCHANGED << env_vars, udev_slot, virt, atomic_status, rsk_vars,
                  rvd_vars, udev_pc, mon_vars, dbus_status, last_status,
                  dbus_conn, notifs >>

\* the PropMap built for the signal
changed_props(status) ==
  [KeyboardStatus |-> as_u32(status), TabletMode |-> is_tablet_mode(status)]

\* conn.send(PropertiesChanged(..)) succeeds; last_status = Some(status)
DbusSend ==
  /\ dbus_pc = "send"
  /\ notifs' = Append(notifs, [sender |-> dbus_conn, props |-> changed_props(dbus_status)])
  /\ last_status' = dbus_status
  /\ dbus_status' = None
  /\ dbus_pc' = "process"
  /\ UNCHANGED << env_vars, udev_slot, virt, atomic_status, rsk_vars,
                  rvd_vars, udev_pc, mon_vars, dbus_conn, n_fail >>

\* conn.send(..) fails: "failed to send properties changed message"
DbusSendErr ==
  /\ dbus_pc = "send"
  /\ n_fail < MaxFails
  /\ n_fail' = n_fail + 1
  /\ dbus_status' = None
  /\ dbus_pc' = "sleep"
  /\ UNCHANGED << env_vars, udev_slot, virt, atomic_status, rsk_vars,
                  rvd_vars, udev_pc, mon_vars, last_status, dbus_conn, notifs >>

DbusRestart ==
  /\ dbus_pc = "sleep"
  /\ dbus_pc' = "connect"
  /\ UNCHANGED << env_vars, udev_slot, virt, atomic_status, rsk_vars,
                  rvd_vars, udev_pc, mon_vars, dbus_status, last_status,
                  dbus_conn, notifs, n_fail >>

\* the callback given to start_receive, run inside conn.process():
\* cr.handle_message(msg, conn).unwrap() panics when handle_message returns
\* Err(()).  spawn_loop matches on f()'s Result and catches no unwinding, so
\* the thread ends; in main, join() returns, unreachable!() panics the main
\* thread and the process exits, which ends every other thread where it is
DbusHandlerPanic ==
  /\ dbus_pc = "process"
  /\ dbus_pc' = "panicked"
  /\ rsk_pc' = "exited" /\ rvd_pc' = "exited"
  /\ udev_pc' = "exited" /\ mon_pc' = "exited"
  /\ UNCHANGED << env_vars, udev_slot, virt, atomic_status, n_keys, reads,
                  rvd_event, dev_keys, dev_switch, mon_status, mon_hist,
                  dbus_status, last_status, dbus_conn, notifs, n_fail >>

\* main has returned from join(): the process is gone
process_exited == dbus_pc = "panicked"

\* ---------------------------------------------------------- specification
Plug ==
  \/ \E d \in Pluggable : \E pos \in 1..(Len(devices) + 1) : Attach(d, pos)
  \/ \E pos \in 1..Len(devices) : Detach(pos)

Hotplug == \E evt \in {"add", "remove", "change"} : HotplugEvent(evt)

read_suppressed_keyboard ==
  \/ RskFind
  \/ \E event \in RawEvents : RskEvent(event)
  \/ RskFetchErr
  \/ RskRestart

run_virtual_device ==
  \/ RvdBuild
  \/ RvdBuildErr
  \/ RvdRecv
  \/ RvdGate
  \/ RvdEmitErr
  \/ RvdRestart

read_udev_add_remove ==
  \/ UdevListen
  \/ UdevListenErr
  \/ UdevRead
  \/ UdevPollErr
  \/ UdevRestart

read_keyboard_status ==
  \/ MonClassify
  \/ MonSend
  \/ MonStore
  \/ MonRecvLong
  \/ MonTimeoutLong
  \/ MonRecvIdle
  \/ MonTimeoutIdle

run_dbus ==
  \/ DbusConnect
  \/ DbusConnectErr
  \/ DbusPoll
  \/ DbusProcessErr
  \/ DbusSend
  \/ DbusSendErr
  \/ DbusRestart

Next ==
  \/ Plug
  \/ Hotplug
  \/ read_suppressed_keyboard
  \/ run_virtual_device
  \/ read_udev_add_remove
  \/ read_keyboard_status
  \/ run_dbus
  \/ DbusHandlerPanic

\* The whole program
Spec == Init /\ [][Next]_vars

\* The threads that share a resource, run without the others being
\* scheduled.  The virtual device always runs, to drain the channel.
Drain == RvdBuild \/ RvdRecv \/ RvdGate

\* without hotplug signals the monitor rechecks on its long timeout only
Periodic == MonClassify \/ MonSend \/ MonStore \/ MonTimeoutLong

\* classifier: every enumeration up to MaxSnapshot devices, one pass each
ClassifyInit ==
  /\ devices \in Snapshots
  /\ udev_sock = << >> /\ udev_slot = FALSE /\ virt = << >>
  /\ atomic_status = as_u32(None)
  /\ rsk_pc = "find" /\ rvd_pc = "build" /\ rvd_event = NoEvent
  /\ dev_keys = << >> /\ dev_switch = Absent
  /\ udev_pc = "listen" /\ mon_pc = "classify" /\ mon_status = None
  /\ dbus_pc = "connect" /\ dbus_status = None /\ last_status = Unset
  /\ dbus_conn = 0 /\ notifs = << >>
  /\ n_dev = 0 /\ n_hot = 0 /\ n_keys = 0 /\ n_fail = 0
  /\ dropped = 0 /\ reads = << >> /\ writes = << >> /\ sw_log = {} /\ mon_trigger = "start"
  /\ burst_len = 0 /\ bursts = 0 /\ burst_passes = 0 /\ burst_stores = 0

ClassifyNext == MonClassify \/ MonSend \/ MonStore

ClassifySpec == ClassifyInit /\ [][ClassifyNext]_vars

\* keyboards plugged at the end of the enumeration (the position matters
\* to the classifier alone)
PlugLast ==
  \/ \E d \in Pluggable : Attach(d, Len(devices) + 1)
  \/ \E pos \in 1..Len(devices) : Detach(pos)

\* the USB keyboard alone plugged in and out
PlugUsb ==
  \/ Attach(UsbKeyboard, Len(devices) + 1)
  \/ \E pos \in 1..Len(devices) : Detach(pos)

\* forwarding: keyboard reader, virtual device (its emit failing and the
\* restart that follows), monitor, keyboards plugged
ForwardNext ==
  \/ PlugLast
  \/ RskFind
  \/ \E event \in RawEvents : RskEvent(event)
  \/ Drain
  \/ RvdEmitErr
  \/ RvdRestart
  \/ Periodic

ForwardSpec == Init /\ [][ForwardNext]_vars

\* hotplug: the event source, the udev reader and the monitor
HotplugNext == Hotplug \/ read_udev_add_remove \/ read_keyboard_status \/ Drain

HotplugSpec == Init /\ [][HotplugNext]_vars

\* the same with the threads scheduled fairly and the timeouts firing
FairHotplugSpec ==
  HotplugSpec /\ WF_vars(read_keyboard_status) /\ WF_vars(Drain)

\* publication: the monitor and the D-Bus publisher, keyboards plugged
PublishNext == Plug \/ Periodic \/ run_dbus \/ Drain

PublishSpec == Init /\ [][PublishNext]_vars

\* forwarding order: the reader and the virtual device with their failures
\* and restarts, the keyboard sending forwarded keys only
OrderNext ==
  \/ PlugUsb
  \/ RskFind
  \/ \E event \in { e \in RawEvents : e.code \in FORWARD_KEYS } : RskEvent(event)
  \/ RskFetchErr
  \/ RskRestart
  \/ Drain
  \/ RvdEmitErr
  \/ RvdRestart
  \/ Periodic

OrderSpec == Init /\ [][OrderNext]_vars

\* filtering: the reader with every kind of raw event, the virtual device
\* and the monitor, none failing, keyboards plugged
FilterNext ==
  \/ PlugLast
  \/ RskFind
  \/ \E event \in RawEvents : RskEvent(event)
  \/ Drain
  \/ Periodic

FilterSpec == Init /\ [][FilterNext]_vars

\* supervision: every worker with its failures and restarts while the
\* process runs, the monitor rechecking on its timeout, no device change
SuperviseNext ==
  \/ RskFind
  \/ RskFetchErr
  \/ RskRestart
  \/ run_virtual_device
  \/ UdevListen
  \/ UdevListenErr
  \/ UdevPollErr
  \/ UdevRestart
  \/ Periodic
  \/ run_dbus
  \/ DbusHandlerPanic

SuperviseSpec == Init /\ [][SuperviseNext]_vars

FairSuperviseSpec ==
  /\ SuperviseSpec
  /\ WF_vars(RskRestart)
  /\ WF_vars(RvdRestart)
  /\ WF_vars(UdevRestart)
  /\ WF_vars(DbusRestart)

\* publication when sending fails: the monitor, the publisher with its
\* send failing and the restart that follows, the USB keyboard plugged
RetryNext ==
  \/ PlugUsb
  \/ Periodic
  \/ Drain
  \/ DbusConnect
  \/ DbusPoll
  \/ DbusSend
  \/ DbusSendErr
  \/ DbusRestart

RetrySpec == Init /\ [][RetryNext]_vars

\* the publisher's thread is scheduled, its sleep returns, and a send that
\* is tried again and again succeeds
FairRetrySpec ==
  RetrySpec /\ WF_vars(DbusConnect \/ DbusPoll \/ DbusSend \/ DbusRestart)

\* presence: keyboards plugged, the udev reader with its failures, the
\* monitor; the monitor's thread is scheduled and its timeouts fire
ConvergeNext == PlugLast \/ read_udev_add_remove \/ read_keyboard_status \/ Drain

ConvergeSpec == Init /\ [][ConvergeNext]_vars

FairConvergeSpec ==
  ConvergeSpec /\ WF_vars(read_keyboard_status) /\ WF_vars(Drain)

\* the switch: keyboards plugged, the monitor rechecking on its timeout and
\* the virtual device, both scheduled, neither failing
SwitchNext == Plug \/ Periodic \/ Drain

SwitchSpec == Init /\ [][SwitchNext]_vars

FairSwitchSpec == SwitchSpec /\ WF_vars(Periodic) /\ WF_vars(Drain)

\* ================================================================ claims
\* ---- C1 (ForwardSpec)
\* the step in which the virtual-device worker handles a key event
HandlesKey == rvd_pc = "gate" /\ rvd_pc' # "gate" /\ rvd_event.type = "KEY"

\* C1: when the worker handles a forwarded key event and the presence word
\* it reads is AnyExternal (1) or CaseExternal (2), the device's output is
\* unchanged; when it reads None (0), the output grows by exactly that
\* event, code and value unchanged (or device.emit fails, nothing is written
\* and the worker returns the error).
C1_ForwardingGate ==
  [][ HandlesKey =>
        /\ atomic_status \in {1, 2} => dev_keys' = dev_keys
        /\ atomic_status = 0 =>
             \/ dev_keys' = Append(dev_keys, rvd_event)
             \/ dev_keys' = dev_keys /\ rvd_pc' = "sleep" ]_vars

\* one key has been emitted and another is at the gate under AnyExternal
C1_Witness ==
  /\ Len(dev_keys) = 1
  /\ dev_keys[1] \in { InputEvent("KEY", "KEY_VOLUMEUP", 1),
                       InputEvent("KEY", "KEY_VOLUMEDOWN", 0) }
  /\ rvd_pc = "gate" /\ rvd_event.type = "KEY"
  /\ atomic_status = 1

\* ---- C2, C3, C4 (ClassifySpec)
Classified == mon_pc = "send"
HasCase    == \E i \in 1..Len(devices) : devices[i].id = <<BUS_BLUETOOTH, 1256, 28705>>
Blacklisted(d) == d.id \in { <<BUS_I8042, 1, 1>>, <<BUS_USB, 6127, 24964>> }
KeyboardLike(d) ==
  \E ks \in d.keys : {"KEY_ENTER", "KEY_BACKSPACE", "KEY_ESC"} \subseteq ks
HasExternalKeyboard ==
  \E i \in 1..Len(devices) : KeyboardLike(devices[i]) /\ ~Blacklisted(devices[i])
OnlyInternalOrNoKeyboard ==
  \A i \in 1..Len(devices) : Blacklisted(devices[i]) \/ ~KeyboardLike(devices[i])

\* C2: every enumeration that contains the keyboard-case identity classifies
\* as CaseExternal, wherever the case device stands.
C2_CasePrecedence == (Classified /\ HasCase) => mon_status = CaseExternal

\* C3: an enumeration without the case identity that contains a device
\* outside the blacklist supporting Enter, Backspace and Escape classifies
\* as AnyExternal.
C3_AnyExternal ==
  (Classified /\ ~HasCase /\ HasExternalKeyboard) => mon_status = AnyExternal

\* the external keyboard stands behind a blacklisted keyboard and a device
\* without key capabilities
C3_Witness ==
  /\ Classified /\ ~HasCase /\ Len(devices) = 3
  /\ Blacklisted(devices[1]) /\ KeyboardLike(devices[1])
  /\ devices[2].keys = {}
  /\ KeyboardLike(devices[3]) /\ ~Blacklisted(devices[3])
  /\ mon_status = AnyExternal

\* C4 as stated: an enumeration of blacklisted devices and devices that do
\* not support all of Enter, Backspace and Escape classifies as None.
C4_OnlyInternal == (Classified /\ OnlyInternalOrNoKeyboard) => mon_status = None

\* C4 amended: the same for enumerations without the case identity.
C4_OnlyInternalNoCase ==
  (Classified /\ OnlyInternalOrNoKeyboard /\ ~HasCase) => mon_status = None

\* both blacklisted keyboards and a foreign device with two of the three keys
C4_Witness ==
  /\ Classified /\ ~HasCase /\ Len(devices) = 3
  /\ \A i \in 1..2 : Blacklisted(devices[i]) /\ KeyboardLike(devices[i])
  /\ devices[1] # devices[2]
  /\ ~Blacklisted(devices[3]) /\ devices[3].keys = {{"KEY_ENTER", "KEY_BACKSPACE"}}
  /\ mon_status = None

\* ---- C5, C6 (HotplugSpec, FairHotplugSpec)
\* rechecks made for bursts, against bursts begun
BurstsRechecked ==
  /\ mon_pc \in {"debounce"} => burst_passes = bursts - 1 /\ burst_stores = bursts - 1
  /\ (mon_pc = "classify" /\ mon_trigger = "burst") =>
       burst_passes = bursts - 1 /\ burst_stores = bursts - 1
  /\ (mon_pc \in {"send", "store"} /\ mon_trigger = "burst") =>
       burst_passes = bursts /\ burst_stores = bursts - 1
  /\ (mon_pc = "wait_long" \/ mon_trigger # "burst") /\ mon_pc # "debounce" =>
       burst_passes = bursts /\ burst_stores = bursts
  /\ mon_pc \notin {"wait_long", "debounce"} => ~udev_slot

\* the inner loop is left only by its timeout, no signal pending or taken
LeavesDebounceOnTimeout ==
  (mon_pc = "debounce" /\ mon_pc' # "debounce") =>
    /\ mon_pc' = "classify"
    /\ ~udev_slot /\ ~udev_slot'
    /\ burst_len' = burst_len
    /\ atomic_status' = atomic_status

\* C5: a burst of N >= 1 signals received by the monitor causes exactly one
\* recheck (one classification pass, one store), begun only when the idle
\* timeout has elapsed with no further signal.
C5_Debounce == []BurstsRechecked /\ [][LeavesDebounceOnTimeout]_vars

\* a burst of three signals has been rechecked, once
C5_Witness ==
  /\ burst_len = 3 /\ bursts = 1
  /\ mon_pc = "wait_long" /\ mon_trigger = "burst"
  /\ burst_passes = 1 /\ burst_stores = 1

\* C6: from the long wait the monitor goes on to a classification pass (its
\* timeout fired) unless a hotplug signal arrives; it does not wait forever.
C6_PeriodicRecheck ==
  (mon_pc = "wait_long") ~> (mon_pc = "send" \/ mon_pc = "debounce")

\* a pass started by the long timeout has classified
C6_Witness == mon_pc = "send" /\ mon_trigger = "periodic" /\ bursts = 0

\* ---- C7 .. C10 (PublishSpec)
NotifValues == [i \in 1..Len(notifs) |-> notifs[i].props.KeyboardStatus]
Changes     == << 0 >> \o writes
StatusCode(s) ==
  CASE s = "CaseExternal" -> 2
    [] s = "AnyExternal"  -> 1
    [] s = "None"         -> 0
\* the publisher has sent the value the presence word holds and is idle
CaughtUp ==
  dbus_pc = "process" /\ last_status # "Unset" /\ StatusCode(last_status) = atomic_status

\* a occurs in b as a subsequence
RECURSIVE IsSubseq(_, _)
IsSubseq(a, b) ==
  IF a = << >> THEN TRUE
  ELSE IF b = << >> THEN FALSE
  ELSE IF Head(a) = Head(b) THEN IsSubseq(Tail(a), Tail(b))
  ELSE IsSubseq(a, Tail(b))

\* a is drawn from b in b's order, an element of b possibly drawn again
RECURSIVE IsSelection(_, _)
IsSelection(a, b) ==
  IF a = << >> THEN TRUE
  ELSE IF b = << >> THEN FALSE
  ELSE IF Head(a) = Head(b) THEN IsSelection(Tail(a), b)
  ELSE IsSelection(a, Tail(b))

\* C7 as stated: every change written by the monitor is delivered to the
\* publisher and published: once the publisher has caught up with the
\* presence value, the changes written so far all have their notification,
\* in the order written.
C7_EveryChangePublished == CaughtUp => IsSubseq(writes, NotifValues)

\* C7 amended: the publisher polls.  The notifications carry values the
\* presence word held, in the order it held them (a value possibly again,
\* after a restart), and once the publisher has caught up the last
\* notification carries the current value; a change overwritten before the
\* next poll has no notification.
C7_PublishedInOrder ==
  /\ IsSelection(NotifValues, Changes)
  /\ CaughtUp =>
       notifs # << >> /\ notifs[Len(notifs)].props.KeyboardStatus = atomic_status

\* a written change was overwritten unpublished and the publisher caught up
C7_Witness ==
  /\ CaughtUp
  /\ Len(writes) = 2
  /\ ~IsSubseq(writes, NotifValues)

\* C8 as stated: no two consecutive notifications carry the same
\* KeyboardStatus, publisher restarts included.
C8_NoDuplicate ==
  \A i \in 2..Len(notifs) :
    notifs[i].props.KeyboardStatus # notifs[i - 1].props.KeyboardStatus

\* C8 amended: no two consecutive notifications of one publisher run (one
\* bus connection) carry the same KeyboardStatus, so a recheck that stores
\* the value already stored causes no notification; the first notification
\* after a restart repeats the current value.
C8_NoDuplicatePerRun ==
  \A i \in 2..Len(notifs) :
    notifs[i].sender = notifs[i - 1].sender =>
      notifs[i].props.KeyboardStatus # notifs[i - 1].props.KeyboardStatus

\* two notifications in one run, then a periodic recheck that stored the
\* same value, polled by the publisher
C8_Witness ==
  /\ Len(notifs) = 2 /\ notifs[1].sender = notifs[2].sender
  /\ Len(writes) = 1
  /\ mon_pc = "wait_long" /\ mon_trigger = "periodic" /\ n_dev = 1
  /\ dbus_pc = "process" /\ last_status # "Unset"

\* C9: a notification carries only the properties whose value differs from
\* the one in the previous notification (of the same publisher run).
C9_OnlyChangedProps ==
  \A i \in 2..Len(notifs) :
    notifs[i].sender = notifs[i - 1].sender =>
      \A p \in DOMAIN notifs[i].props :
        notifs[i].props[p] # notifs[i - 1].props[p]

\* C10: in every notification TabletMode is true iff KeyboardStatus is 0,
\* and every switch event the monitor sends carries 1 iff the classification
\* it was computed from is None, else 0.
C10_TabletModeDerived ==
  /\ \A i \in 1..Len(notifs) :
       notifs[i].props.TabletMode = (notifs[i].props.KeyboardStatus = 0)
  /\ \A e \in sw_log : e[2] = (IF e[1] = "None" THEN 1 ELSE 0)
  /\ \A i \in 1..Len(virt) :
       virt[i].type = "SWITCH" => virt[i].code = "SW_TABLET_MODE" /\ virt[i].value \in {0, 1}

\* notifications and switch events for None and for an external keyboard
C10_Witness ==
  /\ \E i \in 1..Len(notifs) : notifs[i].props.KeyboardStatus = 0
  /\ \E i \in 1..Len(notifs) : notifs[i].props.KeyboardStatus = 1
  /\ << "None", 1 >> \in sw_log
  /\ << "AnyExternal", 0 >> \in sw_log

\* ---- C11, C12 (SuperviseSpec, FairSuperviseSpec)
Failed(pc) == pc \in {"sleep", "panicked"}

\* C11: every worker that has failed, by an error return or by a panic, is
\* invoked again from its initial state when the backoff has elapsed, and
\* no thread, nor the process, ever ends.  (read_keyboard_status has no
\* failing call: its only `?` is on a send whose receiver is never dropped.)
C11_SupervisorRestart ==
  /\ Failed(rsk_pc)  ~> (rsk_pc = "find")
  /\ Failed(rvd_pc)  ~> (rvd_pc = "build")
  /\ Failed(udev_pc) ~> (udev_pc = "listen")
  /\ Failed(dbus_pc) ~> (dbus_pc = "connect")
  /\ [](~process_exited)

\* a step in which a worker returns an error to spawn_loop, or spawn_loop
\* invokes it again
Supervised(pc, pc_next) ==
  \/ pc # "sleep" /\ pc_next = "sleep"
  \/ pc = "sleep" /\ pc_next \notin {"sleep", "exited"}

shared_vars == << atomic_status, virt, udev_slot >>

KeysOf(events) == SelectSeq(events, LAMBDA e : e.type = "KEY")

\* the key events emitted, then the one the virtual device holds, then
\* those in the channel
KeysForwarded == dev_keys \o KeysOf(<< rvd_event >>) \o KeysOf(virt)

\* C13: the key events emitted, followed by those still on their way, are a
\* subsequence of the forwarded-key events read from the internal keyboard:
\* the same order, none more often than it was read, whatever the
\* interleaving and the restarts of the reader and of the virtual device.
C13_ForwardingOrder ==
  /\ IsSubseq(KeysForwarded, reads)
  /\ IsSubseq(dev_keys, reads)

\* two different keys were read; the first was lost to a gate or a failed
\* emit, a worker was restarted, the second was emitted
C13_Witness ==
  /\ Len(reads) = 2 /\ reads[1] # reads[2]
  /\ dev_keys = << reads[2] >>
  /\ n_fail = 1 /\ rvd_pc = "recv" /\ rsk_pc = "fetch"

\* every event in the channel, in the virtual device's hand and emitted
Forwarded == Range(virt) \cup Range(dev_keys) \cup ({ rvd_event } \ { NoEvent })

\* C14: every key event in the channel or emitted on the device has the
\* code of VolumeDown or VolumeUp, and was read from the keyboard; nothing
\* else reaches the channel but the monitor's switch events.
C14_OnlyForwardKeys ==
  \A e \in Forwarded :
    \/ /\ e.type = "KEY"
       /\ e.code \in {"KEY_VOLUMEDOWN", "KEY_VOLUMEUP"}
       /\ e \in Range(reads)
    \/ e.type = "SWITCH" /\ e.code = "SW_TABLET_MODE"

\* two raw events were read, one of them was not forwarded, the other has
\* been emitted
C14_Witness ==
  /\ n_keys = 2 /\ Len(reads) = 1
  /\ dev_keys = reads
  /\ virt = << >> /\ rvd_pc = "recv"

\* ---- C15 (RetrySpec, FairRetrySpec)
\* the latest notification was sent on a connection opened after the k-th
\* and carries the value the presence word holds
ReportedAfter(k) ==
  /\ CaughtUp
  /\ notifs # << >>
  /\ notifs[Len(notifs)].sender > k
  /\ notifs[Len(notifs)].props.KeyboardStatus = atomic_status

\* C15: when sending a notification has failed (the publisher returned the
\* error to its supervisor and sleeps), the publisher is invoked again and
\* a notification carrying the value the presence word then holds is sent
\* on the new connection, provided sends do not fail forever.
C15_SendFailureRecovery ==
  \A k \in 1..(MaxFails + 1) :
    (dbus_pc = "sleep" /\ dbus_conn = k) ~> ReportedAfter(k)

\* a send has failed and the second connection has reported the external
\* keyboard
C15_Witness ==
  /\ n_fail = 1 /\ dbus_conn = 2
  /\ ReportedAfter(1)
  /\ atomic_status = 1

\* ---- C16, C17 (HotplugSpec)
\* the step in which the udev reader takes an add or remove event from its
\* socket and calls try_send
SendsSignal ==
  /\ udev_pc = "poll" /\ udev_pc' = "poll"
  /\ udev_sock # << >> /\ udev_sock' = Tail(udev_sock)
  /\ Head(udev_sock) \in {"add", "remove"}

MonitorBusy    == mon_pc \in {"classify", "send", "store"}
MonitorBlocked == mon_pc \in {"wait_long", "debounce"}

\* C16 as stated: a hotplug notification read while the monitor is busy
\* classifying is not lost: the send waits and the signal reaches the
\* monitor.
C16_SendBlocks == [][ (SendsSignal /\ MonitorBusy) => dropped' = dropped ]_vars

\* C16 amended: a hotplug notification read while the monitor is busy
\* classifying is dropped at once: the send returns without blocking, the
\* reader goes on polling, nothing is kept for the monitor, and the monitor
\* goes on as it was.
C16_SendDropsWhenBusy ==
  [][ (SendsSignal /\ MonitorBusy) =>
        /\ dropped' = dropped + 1
        /\ ~udev_slot'
        /\ UNCHANGED mon_vars ]_vars

\* a signal was dropped during the monitor's first pass, before it had
\* ever waited
C16_Witness ==
  /\ dropped = 1
  /\ MonitorBusy /\ mon_trigger = "start"
  /\ ~udev_slot /\ bursts = 0

\* the channel holds a signal only between its hand-over to the blocked
\* monitor and the monitor's return from recv_timeout
NoBacklog == udev_slot => MonitorBlocked

\* a send hands its signal over exactly when the monitor is blocked in a
\* receive and has none in hand; otherwise the signal is dropped, the
\* sender continuing either way; the monitor receives only a signal handed
\* over
HandOver ==
  /\ SendsSignal =>
       IF MonitorBlocked /\ ~udev_slot
         THEN udev_slot' /\ dropped' = dropped
         ELSE udev_slot' = udev_slot /\ dropped' = dropped + 1
  /\ (udev_slot' /\ ~udev_slot) => (SendsSignal /\ MonitorBlocked)
  /\ (burst_len' # burst_len) => (udev_slot /\ ~udev_slot' /\ dropped' = dropped)

\* C17: the hotplug channel holds no backlog: a signal is delivered only if
\* the monitor is blocked in a receive when it is sent; otherwise it is
\* dropped, the sender goes on without blocking, and a dropped signal is
\* not delivered later.
C17_NoBacklog == []NoBacklog /\ [][HandOver]_vars

\* one signal was handed over and rechecked, another was dropped, and the
\* monitor waits again with nothing pending
C17_Witness ==
  /\ dropped = 1
  /\ bursts = 1 /\ burst_len = 1 /\ burst_stores = 1
  /\ mon_pc = "wait_long" /\ ~udev_slot
  /\ udev_pc = "poll" /\ udev_sock = << >>

\* ---- C18 (ConvergeSpec, FairConvergeSpec)
PresenceCurrent == atomic_status = as_u32(keyboard_status(devices))

\* C18: the attached devices change finitely often; from some point on the
\* presence word equals the classification of the devices attached and
\* stays equal, whether or not the hotplug signals of the last change
\* reached the monitor.
C18_EventuallyConsistent == <>[]PresenceCurrent

\* a keyboard was attached, its signal was dropped, the monitor has never
\* received a signal, and a recheck on the long timeout stored the presence
C18_Witness ==
  /\ n_dev >= 1 /\ dropped >= 1 /\ bursts = 0
  /\ mon_pc = "wait_long" /\ mon_trigger = "periodic"
  /\ atomic_status # 0 /\ PresenceCurrent
  /\ udev_sock = << >> /\ ~udev_slot

\* ---- C19 (FairSwitchSpec)
\* the monitor has classified the devices as they are after their last
\* change, sent the switch event, and is about to store a value that
\* differs from the one stored
ComputedNew(X) ==
  /\ mon_pc = "store" /\ mon_status = X
  /\ n_dev = MaxDevChanges /\ X = keyboard_status(devices)
  /\ as_u32(X) # atomic_status

\* the SW_TABLET_MODE value last emitted on the synthesized device
SwitchShows(X) == dev_switch = { IF X = "None" THEN 1 ELSE 0 }

\* C19: after the monitor has computed a classification X that differs from
\* the stored value, and with no further device change or failure, the
\* switch value last emitted on the synthesized device eventually is
\* (X = None), however the monitor's send and store interleave with the
\* virtual device's receive, load and gate.
C19_SwitchConverges ==
  \A X \in {"CaseExternal", "AnyExternal", "None"} :
    ComputedNew(X) ~> SwitchShows(X)

\* the part of C19 for X = None alone
C19_SwitchConvergesToTablet == ComputedNew("None") ~> SwitchShows("None")

\* ---- C20 (SwitchSpec)
\* C20: the presence word is always 0, 1 or 2; decoding the code of each of
\* the three KeyboardStatus values returns that value, and decoding the
\* word never takes the fallback arm: encoding what was decoded gives the
\* word back.
C20_PresenceEncoding ==
  /\ atomic_status \in {0, 1, 2}
  /\ \A s \in {"CaseExternal", "AnyExternal", "None"} : load_atomic(as_u32(s)) = s
  /\ as_u32(load_atomic(atomic_status)) = atomic_status

\* the monitor has stored the codes of AnyExternal and of CaseExternal, and
\* the virtual device is about to decode the word holding CaseExternal's
C20_Witness ==
  /\ \E i \in 1..Len(writes) : writes[i] = 1
  /\ atomic_status = 2
  /\ rvd_pc = "gate"

====
